---------------------------- MODULE Spec2Model ----------------------------
(***************************************************************************)
(* Model of the Historian command-history manager (src/historian.js).      *)
(*                                                                         *)
(* The engine owns two stacks of entries {command, args}, a size and a     *)
(* flag _next naming the stack the next register() pushes to.  Commands    *)
(* are caller-supplied functions run against a context; the context here   *)
(* is the single variable x of the documented examples.  Every method is   *)
(* synchronous, so a caller-level call (with every register() nested in    *)
(* the commands it replays) is one step of the model.                      *)
(***************************************************************************)
EXTENDS Integers, Sequences, FiniteSets

VARIABLES
    size,       \* this._size
    history,    \* this._history: [undo |-> stack, redo |-> stack]
    next,       \* this._next: "undo" or "redo"
    x,          \* the context variable the commands mutate
    last,       \* the last caller-level call: what it was given, saw and did
    doc         \* how many calls of the documented usage trace were replayed

vars == <<size, history, next, x, last, doc>>

---------------------------------------------------------------------------
(* Bounds of the model and constants of the program.                       *)

\* the caller calls register() only while both stacks together hold fewer
\* entries than this
MaxEntries == 2
\* the caller calls add() or sub() only while both stacks together hold fewer
\* entries than this
MaxOperationEntries == 4
\* the largest level count passed to undo(n) / redo(n)
MaxLevels == 3
\* the largest explicit size passed to the constructor
MaxSize == 2
\* size || 10
DefaultSize == 10
\* var x = 1
InitialX == 1

---------------------------------------------------------------------------
(* JavaScript values: undefined, numbers and arrays of scalars, all of one *)
(* record shape.                                                           *)

Undefined == [t |-> "undefined", n |-> 0, items |-> <<>>]
Num(k)    == [t |-> "number", n |-> k, items |-> <<>>]
Arr(s)    == [t |-> "array", n |-> 0, items |-> s]

\* the left operand of `a || b` is falsy: undefined or 0
Falsy(o) == o.t = "undefined" \/ (o.t = "number" /\ o.n = 0)

\* `o || d` for a number-or-undefined o and a number d
OrElse(o, d) == IF Falsy(o) THEN d ELSE o.n

isArray(o) == o.t = "array"

\* Array.prototype.unshift(...items): inserts the items at the front
unshift(arr, items) == items \o arr

\* Array.prototype.pop(): the array without its last element
popped(arr) == IF arr = <<>> THEN arr ELSE SubSeq(arr, 1, Len(arr) - 1)

---------------------------------------------------------------------------
(* The engine together with the context and a record of the running call:  *)
(*   log    the commands invoked by undo/redo, in order, with their args   *)
(*   regs   the register() calls made, in order                            *)
(*   thrown "" or what was thrown out of the call                          *)

Historian(sizeArg) ==
    [ size    |-> OrElse(sizeArg, DefaultSize),
      history |-> [undo |-> <<>>, redo |-> <<>>],
      next    |-> "undo",
      x       |-> InitialX,
      log     |-> <<>>,
      regs    |-> <<>>,
      thrown  |-> "" ]

\* what a register() call did: the stack it pushed to, whether that stack
\* already held size entries, the entry, the flag it left, and the replayed
\* command it was called from (its place in the log, 0 for none)
Registered(m, type, entry, r) ==
    [r EXCEPT !.regs = Append(@, [type |-> type, entry |-> entry,
                                  full |-> Len(m.history[type]) >= m.size,
                                  nextAfter |-> r.next,
                                  call |-> Len(m.log)])]

\* register() that leaves the flag as it found it
registerNoReset(m, cmd, args) ==
    LET a     == IF ~isArray(args) THEN <<args>> ELSE args.items
        type  == m.next
        stack == m.history[type]
        kept  == IF Len(stack) >= m.size THEN unshift(stack, <<>>) ELSE stack
        entry == [command |-> cmd, args |-> a]
    IN  Registered(m, type, entry,
                   [m EXCEPT !.history[type] = Append(kept, entry)])

\* register() that empties the redo stack, as linear undo histories do
registerClearsRedo(m, cmd, args) ==
    LET a     == IF ~isArray(args) THEN <<args>> ELSE args.items
        type  == m.next
        stack == m.history[type]
        kept  == IF Len(stack) >= m.size THEN unshift(stack, <<>>) ELSE stack
        entry == [command |-> cmd, args |-> a]
    IN  Registered(m, type, entry,
                   [m EXCEPT !.history = [undo |-> IF type = "undo"
                                                   THEN Append(kept, entry)
                                                   ELSE @.undo,
                                          redo |-> IF type = "redo"
                                                   THEN Append(kept, entry)
                                                   ELSE <<>>],
                             !.next = "undo"])

\* register() that wraps args into an array whatever it is
registerAlwaysWraps(m, cmd, args) ==
    LET a     == <<args>>
        type  == m.next
        stack == m.history[type]
        kept  == IF Len(stack) >= m.size THEN unshift(stack, <<>>) ELSE stack
        entry == [command |-> cmd, args |-> a]
    IN  Registered(m, type, entry,
                   [m EXCEPT !.history[type] = Append(kept, entry),
                             !.next = "undo"])

register(m, cmd, args) ==
    LET a     == IF ~isArray(args) THEN <<args>> ELSE args.items
        type  == m.next
        stack == m.history[type]
        \* unshift() is called with no argument
        kept  == IF Len(stack) >= m.size THEN unshift(stack, <<>>) ELSE stack
        entry == [command |-> cmd, args |-> a]
    IN  Registered(m, type, entry,
                   [m EXCEPT !.history[type] = Append(kept, entry),
                             !.next = "undo"])

---------------------------------------------------------------------------
(* The caller's functions.  add and sub are the documented pair of mutual  *)
(* inverses; addTwo is an operation composed of two add() calls; setx      *)
(* mutates without registering; boom throws.                               *)

add(m) == [register(m, "sub", Undefined) EXCEPT !.x = @ + 1]

sub(m) == [register(m, "add", Undefined) EXCEPT !.x = @ - 1]

addTwo(m) == add(add(m))

setx(m, args) ==
    IF Len(args) >= 1 /\ args[1].t = "number" THEN [m EXCEPT !.x = args[1].n]
    ELSE m

boom(m) == [m EXCEPT !.thrown = "Error"]

Commands == {"add", "sub", "addTwo", "setx", "boom"}

\* entry.command.apply(this._context, entry.args)
apply(m, entry) ==
    LET called == [m EXCEPT !.log = Append(@, entry)]
    IN  CASE entry.command = "add"    -> add(called)
          [] entry.command = "sub"    -> sub(called)
          [] entry.command = "addTwo" -> addTwo(called)
          [] entry.command = "setx"   -> setx(called, entry.args)
          [] entry.command = "boom"   -> boom(called)

---------------------------------------------------------------------------
(* undo and redo.  pop() of an empty array yields undefined, and reading   *)
(* .command of undefined throws a TypeError.                               *)

\* one iteration of undo's loop: pop, set the flag, invoke
\* the loop body without this._next = 'redo'
undoStepKeepsFlag(m) ==
    LET stack == m.history.undo
        taken == [m EXCEPT !.history.undo = popped(stack)]
    IN  IF stack = <<>> THEN [taken EXCEPT !.thrown = "TypeError"]
        ELSE apply(taken, stack[Len(stack)])

\* the loop body reading the last entry without removing it
undoStepPeeks(m) ==
    LET stack == m.history.undo
        taken == [m EXCEPT !.next = "redo"]
    IN  IF stack = <<>> THEN [taken EXCEPT !.thrown = "TypeError"]
        ELSE apply(taken, stack[Len(stack)])

\* the loop body putting the entry back when its command throws
undoStepRollsBack(m) ==
    LET stack == m.history.undo
        taken == [m EXCEPT !.history.undo = popped(stack), !.next = "redo"]
        done  == apply(taken, stack[Len(stack)])
    IN  IF stack = <<>> THEN [taken EXCEPT !.thrown = "TypeError"]
        ELSE IF done.thrown # ""
             THEN [done EXCEPT !.history.undo = Append(@, stack[Len(stack)])]
             ELSE done

\* the loop body taking the oldest entry (shift) instead of the newest (pop)
undoStepTakesOldest(m) ==
    LET stack == m.history.undo
        taken == [m EXCEPT !.history.undo = Tail(stack), !.next = "redo"]
    IN  IF stack = <<>> THEN [m EXCEPT !.next = "redo", !.thrown = "TypeError"]
        ELSE apply(taken, stack[1])

undoStep(m) ==
    LET stack == m.history.undo
        taken == [m EXCEPT !.history.undo = popped(stack), !.next = "redo"]
    IN  IF stack = <<>> THEN [taken EXCEPT !.thrown = "TypeError"]
        ELSE apply(taken, stack[Len(stack)])

\* for(var i = 0; i < n; i++), left early by a throw
RECURSIVE undoLoop(_, _, _)
undoLoop(m, n, i) ==
    IF m.thrown # "" \/ ~(i < n) THEN m ELSE undoLoop(undoStep(m), n, i + 1)

\* undo() guarded by length <= size
undoGuardOffByOne(m, nArg) ==
    LET n0 == OrElse(nArg, 1)
        n  == IF n0 > Len(m.history.undo) THEN Len(m.history.undo) ELSE n0
    IN  IF Len(m.history.undo) <= m.size THEN undoLoop(m, n, 0) ELSE m

\* undo() without the clamp of n to the length of the stack
undoNoClamp(m, nArg) ==
    LET n == OrElse(nArg, 1)
    IN  IF Len(m.history.undo) < m.size THEN undoLoop(m, n, 0) ELSE m

\* undo() without the guard length < size
undoNoGuard(m, nArg) ==
    LET n0 == OrElse(nArg, 1)
        n  == IF n0 > Len(m.history.undo) THEN Len(m.history.undo) ELSE n0
    IN  undoLoop(m, n, 0)

undo(m, nArg) ==
    LET n0 == OrElse(nArg, 1)
        n  == IF n0 > Len(m.history.undo) THEN Len(m.history.undo) ELSE n0
    IN  IF Len(m.history.undo) < m.size THEN undoLoop(m, n, 0) ELSE m

\* the loop body without this._next = 'undo'
redoStepKeepsFlag(m) ==
    LET stack == m.history.redo
        taken == [m EXCEPT !.history.redo = popped(stack)]
    IN  IF stack = <<>> THEN [taken EXCEPT !.thrown = "TypeError"]
        ELSE apply(taken, stack[Len(stack)])

\* one iteration of redo's loop: pop, set the flag, invoke
redoStep(m) ==
    LET stack == m.history.redo
        taken == [m EXCEPT !.history.redo = popped(stack), !.next = "undo"]
    IN  IF stack = <<>> THEN [taken EXCEPT !.thrown = "TypeError"]
        ELSE apply(taken, stack[Len(stack)])

RECURSIVE redoLoop(_, _, _)
redoLoop(m, n, i) ==
    IF m.thrown # "" \/ ~(i < n) THEN m ELSE redoLoop(redoStep(m), n, i + 1)

\* redo() without the default n = 1
redoNoDefault(m, nArg) ==
    LET n0 == IF nArg.t = "number" THEN nArg.n ELSE 0
        n  == IF n0 > Len(m.history.redo) THEN Len(m.history.redo) ELSE n0
    IN  IF Len(m.history.redo) < m.size THEN redoLoop(m, n, 0) ELSE m

\* redo() without the clamp of n to the length of the stack
redoNoClamp(m, nArg) ==
    LET n == OrElse(nArg, 1)
    IN  IF Len(m.history.redo) < m.size THEN redoLoop(m, n, 0) ELSE m

redo(m, nArg) ==
    LET n0 == OrElse(nArg, 1)
        n  == IF n0 > Len(m.history.redo) THEN Len(m.history.redo) ELSE n0
    IN  IF Len(m.history.redo) < m.size THEN redoLoop(m, n, 0) ELSE m

---------------------------------------------------------------------------
(* Inputs.                                                                 *)

SizeArgs == {Undefined} \cup {Num(k) : k \in 1..MaxSize}

LevelArgs == {Undefined} \cup {Num(k) : k \in 0..MaxLevels}

\* what the caller passes to register(cmd, args)
RegisterInputs ==
    {<<c, Undefined>> : c \in Commands \ {"setx"}}
        \cup {<<"setx", Num(0)>>, <<"setx", Arr(<<Num(0), Num(1)>>)>>}

\* the operations the caller invokes directly
Operations == {"add", "sub"}

\* the usage documented with the class: add(); undo(); sub(); add(); add();
\* undo(2); redo()
DocTrace ==
    << [op |-> "call", cmd |-> "add", arg |-> Undefined],
       [op |-> "undo", cmd |-> "", arg |-> Undefined],
       [op |-> "call", cmd |-> "sub", arg |-> Undefined],
       [op |-> "call", cmd |-> "add", arg |-> Undefined],
       [op |-> "call", cmd |-> "add", arg |-> Undefined],
       [op |-> "undo", cmd |-> "", arg |-> Num(2)],
       [op |-> "redo", cmd |-> "", arg |-> Undefined] >>

\* the values of x the documentation gives after each call
DocX == <<2, 1, 0, 1, 2, 0, 1>>

---------------------------------------------------------------------------
(* The state machine.                                                      *)

\* the engine and context of the current state, about to serve a call
Current ==
    [ size |-> size, history |-> history, next |-> next, x |-> x,
      log |-> <<>>, regs |-> <<>>, thrown |-> "" ]

Entries == Len(history.undo) + Len(history.redo)

\* the state after a caller-level call that took Current to m
Returned(op, cmd, arg, m) ==
    /\ size' = m.size
    /\ history' = m.history
    /\ next' = m.next
    /\ x' = m.x
    /\ last' = [ op |-> op, cmd |-> cmd, arg |-> arg,
                 pre |-> [history |-> history, next |-> next, x |-> x],
                 log |-> m.log, regs |-> m.regs, thrown |-> m.thrown ]
    /\ doc' = IF /\ doc >= 0
                 /\ doc < Len(DocTrace)
                 /\ DocTrace[doc + 1] = [op |-> op, cmd |-> cmd, arg |-> arg]
              THEN doc + 1 ELSE -1

Init ==
    \E sizeArg \in SizeArgs :
        LET m == Historian(sizeArg)
        IN  /\ size = m.size
            /\ history = m.history
            /\ next = m.next
            /\ x = m.x
            /\ last = [ op |-> "new", cmd |-> "", arg |-> sizeArg,
                        pre |-> [history |-> m.history, next |-> m.next, x |-> m.x],
                        log |-> <<>>, regs |-> <<>>, thrown |-> "" ]
            /\ doc = IF sizeArg = Undefined THEN 0 ELSE -1

\* the caller calls h.register(cmd, args)
CallRegister ==
    /\ Entries < MaxEntries
    /\ \E in \in RegisterInputs :
          Returned("register", in[1], in[2], register(Current, in[1], in[2]))

\* the caller calls add() or sub()
CallOperation ==
    /\ Entries < MaxOperationEntries
    /\ \E op \in Operations :
          Returned("call", op, Undefined,
                   IF op = "add" THEN add(Current) ELSE sub(Current))

\* the caller calls h.undo(n)
CallUndo ==
    \E n \in LevelArgs : Returned("undo", "", n, undo(Current, n))

\* the caller calls h.redo(n)
CallRedo ==
    \E n \in LevelArgs : Returned("redo", "", n, redo(Current, n))

Next == CallRegister \/ CallOperation \/ CallUndo \/ CallRedo

Spec == Init /\ [][Next]_vars

---------------------------------------------------------------------------
(* Vocabulary of the properties.                                           *)

Pre == last.pre

\* the commands that register exactly one command, their inverse
Inverses == {"add", "sub"}

InverseOf(c) == IF c = "add" THEN "sub" ELSE "add"

\* the entry a replayed add or sub registers
InverseEntry(e) == [command |-> InverseOf(e.command), args |-> <<Undefined>>]

AllInverses(stack) == \A i \in 1..Len(stack) : stack[i].command \in Inverses

\* the entries the call's register() calls pushed to the stack `type`
RECURSIVE PushedTo(_, _)
PushedTo(type, regs) ==
    IF regs = <<>> THEN <<>>
    ELSE (IF regs[1].type = type THEN <<regs[1].entry>> ELSE <<>>)
            \o PushedTo(type, Tail(regs))

\* the level count the call was given is a number above k
LevelAbove(k) == last.arg.t = "number" /\ last.arg.n > k

---------------------------------------------------------------------------
(* C1: neither stack ever holds more than size entries.                    *)
CapacityBound ==
    /\ Len(history.undo) <= size
    /\ Len(history.redo) <= size

(* C2: undo(n) called with exactly size entries on the undo stack invokes  *)
(* no command and leaves both stacks as they were, whatever n; likewise    *)
(* redo(n) with exactly size entries on the redo stack.                    *)
FullStackGuard ==
    /\ (last.op = "undo" /\ Len(Pre.history.undo) = size)
          => (last.log = <<>> /\ history = Pre.history)
    /\ (last.op = "redo" /\ Len(Pre.history.redo) = size)
          => (last.log = <<>> /\ history = Pre.history)

FullStackGuardWitness ==
    /\ last.op = "undo"
    /\ Len(Pre.history.undo) = size
    /\ last.arg = Num(2)

\* undo() has just returned from a state that k calls of add()/sub() and
\* nothing else produce: k entries of inverses on the undo stack, none on
\* the redo stack, the flag at undo
AfterUndoOfOperations ==
    /\ last.op = "undo"
    /\ last.arg = Undefined
    /\ Pre.next = "undo"
    /\ Pre.history.redo = <<>>
    /\ Len(Pre.history.undo) >= 1
    /\ AllInverses(Pre.history.undo)

\* undo() invoked the most recently registered command, and redo() now
\* invokes one command that restores x and the length of the undo stack
RoundTrips ==
    LET r == redo(Current, Undefined)
    IN  /\ last.log = <<Pre.history.undo[Len(Pre.history.undo)]>>
        /\ Len(r.log) = 1
        /\ r.thrown = ""
        /\ r.x = Pre.x
        /\ Len(r.history.undo) = Len(Pre.history.undo)

(* C3 as stated: after k <= size registrations by add()/sub(), undo()      *)
(* then redo() invokes the last registered command and then restores x     *)
(* and the length of the undo stack.                                       *)
RoundTripUpToSize ==
    (AfterUndoOfOperations /\ Len(Pre.history.undo) <= size) => RoundTrips

(* C3 amended: the same for k < size registrations.                        *)
RoundTripBelowSize ==
    (AfterUndoOfOperations /\ Len(Pre.history.undo) < size) => RoundTrips

RoundTripWitness ==
    /\ AfterUndoOfOperations
    /\ Len(Pre.history.undo) = 3
    /\ Len(Pre.history.undo) < size
    /\ Pre.x # x

\* undo(n) has just replayed commands that each register once
AfterUndoOfInverses ==
    /\ last.op = "undo"
    /\ last.log # <<>>
    /\ AllInverses(last.log)

\* whatever undo(n) replayed, the registration of each replayed add or sub
\* went to the redo stack
InverseRegisteredOnRedo ==
    \A i \in 1..Len(last.regs) :
        LET r == last.regs[i]
        IN  (r.call >= 1 /\ last.log[r.call].command \in Inverses)
                => r.type = "redo"

\* every nested registration went to the redo stack, in replay order
NestedOnRedo ==
    /\ history.redo
          = Pre.history.redo \o [i \in 1..Len(last.log) |-> InverseEntry(last.log[i])]
    /\ history.undo
          = SubSeq(Pre.history.undo, 1, Len(Pre.history.undo) - Len(last.log))
    /\ \A i \in 1..Len(last.regs) : last.regs[i].type = "redo"

\* redo() now invokes the command registered last
RedoInvokesRegistered ==
    redo(Current, Undefined).log = <<InverseEntry(last.log[Len(last.log)])>>

(* C4 as stated: the entries registered by the commands undo(n) replays    *)
(* are appended to the redo stack in replay order, and a following redo()  *)
(* invokes the registered command.                                         *)
NestedRegistrationThenRedo ==
    AfterUndoOfInverses => (NestedOnRedo /\ RedoInvokesRegistered)

(* C4 amended: the entries registered by the commands undo(n) replays are  *)
(* appended to the redo stack in replay order, and a following redo()      *)
(* invokes the registered command when the redo stack then holds fewer     *)
(* than size entries.                                                      *)
NestedRegistrationOnRedo ==
    /\ last.op = "undo" => InverseRegisteredOnRedo
    /\ AfterUndoOfInverses
          => /\ NestedOnRedo
             /\ Len(history.redo) < size => RedoInvokesRegistered

NestedRegistrationWitness ==
    /\ AfterUndoOfInverses
    /\ Len(last.log) = 2
    /\ Pre.history.redo # <<>>
    /\ Len(history.redo) < size

(* C5: every register() call, by the caller or nested in a replayed        *)
(* command or an operation, leaves the flag at undo, whichever stack it    *)
(* pushed to and whether or not that stack was full.                       *)
RegisterResetsFlag ==
    /\ \A i \in 1..Len(last.regs) : last.regs[i].nextAfter = "undo"
    /\ last.op \in {"register", "call"} => next = "undo"

RegisterResetsFlagWitness ==
    /\ last.regs # <<>>
    /\ last.regs[1].type = "redo"
    /\ last.regs[1].full
    /\ next = "undo"

(* C6: register() onto a stack that holds size entries, called by the      *)
(* caller or by an operation the caller invokes, leaves it with size       *)
(* entries: the previous ones without the oldest, then the new one.        *)
OldestFirstEviction ==
    (last.op \in {"register", "call"} /\ Len(Pre.history[Pre.next]) = size)
        => /\ Len(history[Pre.next]) = size
           /\ history[Pre.next]
                 = Append(Tail(Pre.history[Pre.next]), last.regs[1].entry)

(* C7: undo(n) with n above the length of the undo stack, and that length  *)
(* below size, never pops an empty stack, invokes no more commands than    *)
(* the stack held, and exactly that many unless a command throws; redo(n)  *)
(* likewise.                                                               *)
LevelClamping ==
    /\ (/\ last.op = "undo"
        /\ LevelAbove(Len(Pre.history.undo))
        /\ Len(Pre.history.undo) < size)
          => /\ last.thrown # "TypeError"
             /\ Len(last.log) <= Len(Pre.history.undo)
             /\ last.thrown = "" => Len(last.log) = Len(Pre.history.undo)
    /\ (/\ last.op = "redo"
        /\ LevelAbove(Len(Pre.history.redo))
        /\ Len(Pre.history.redo) < size)
          => /\ last.thrown # "TypeError"
             /\ Len(last.log) <= Len(Pre.history.redo)
             /\ last.thrown = "" => Len(last.log) = Len(Pre.history.redo)

LevelClampingWitness ==
    /\ last.op = "undo"
    /\ last.arg = Num(3)
    /\ Len(Pre.history.undo) = 2
    /\ Len(last.log) = 2
    /\ last.thrown = ""

\* undo(3) was called with at least 3 entries, fewer than size, the newest
\* a command that returns and pushes nothing back, the one below it boom
SecondOfThreeThrows ==
    LET stack == Pre.history.undo
    IN  /\ last.op = "undo"
        /\ last.arg = Num(3)
        /\ Len(stack) >= 3
        /\ Len(stack) < size
        /\ stack[Len(stack)].command \in {"add", "sub", "setx"}
        /\ stack[Len(stack) - 1].command = "boom"

(* C8: when the second command of undo(3) throws, the first has run, the   *)
(* third is not invoked, two entries are gone from the undo stack, none is *)
(* pushed back, and the caller gets the error.                             *)
FailureWithoutRollback ==
    SecondOfThreeThrows
        => LET stack == Pre.history.undo
               first == apply([Current EXCEPT !.history = Pre.history,
                                              !.next = "redo", !.x = Pre.x],
                              stack[Len(stack)])
           IN  /\ last.thrown = "Error"
               /\ last.log = <<stack[Len(stack)], stack[Len(stack) - 1]>>
               /\ x = first.x
               /\ last.regs = first.regs
               /\ history.undo = SubSeq(stack, 1, Len(stack) - 2)
               /\ history.redo
                     = Pre.history.redo \o PushedTo("redo", last.regs)

FailureWithoutRollbackWitness ==
    /\ SecondOfThreeThrows
    /\ Pre.history.undo[Len(Pre.history.undo)].command = "add"
    /\ x = Pre.x + 1

(* C9: after each call of the documented trace add(); undo(); sub();       *)
(* add(); add(); undo(2); redo() on a default-size engine with x = 1, x is *)
(* 2, 1, 0, 1, 2, 0, 1.                                                    *)
DocumentedTrace == doc >= 1 => x = DocX[doc]

DocumentedTraceWitness == doc = Len(DocTrace) /\ x = 1

(* C10: a register() call by the caller pushes one entry to the stack the  *)
(* flag named, invokes nothing, and changes neither the other stack nor    *)
(* the context.                                                            *)
RegisterFrame ==
    last.op = "register"
        => LET type  == Pre.next
               other == IF type = "undo" THEN "redo" ELSE "undo"
           IN  /\ last.log = <<>>
               /\ last.thrown = ""
               /\ x = Pre.x
               /\ history[other] = Pre.history[other]
               /\ Len(last.regs) = 1
               /\ last.regs[1].type = type
               /\ last.regs[1].entry.command = last.cmd
               /\ history[type][Len(history[type])] = last.regs[1].entry

RegisterFrameWitness ==
    /\ last.op = "register"
    /\ Pre.next = "undo"
    /\ Pre.history.redo # <<>>
    /\ last.cmd = "boom"

Newest(stack) == stack[Len(stack)]

\* the replayed command was setx with a number as its first argument
SetxOfNumber(e) ==
    e.command = "setx" /\ Len(e.args) >= 1 /\ e.args[1].t = "number"

(* C12: register(fn, v) with v not an array stores the args [v], and       *)
(* register(fn, [a, b]) stores [a, b]; a replay invokes the command of the *)
(* popped entry with exactly the stored args, so that setx(v, ...) leaves  *)
(* x = v.                                                                  *)
ArgumentNormalization ==
    /\ last.op = "register"
          => LET e == last.regs[1].entry
             IN  /\ e.command = last.cmd
                 /\ last.arg.t # "array" => e.args = <<last.arg>>
                 /\ last.arg.t = "array" => e.args = last.arg.items
    /\ (last.op = "undo" /\ last.log # <<>>)
          => /\ last.log[1] = Newest(Pre.history.undo)
             /\ (Len(last.log) = 1 /\ SetxOfNumber(last.log[1]))
                   => x = last.log[1].args[1].n
    /\ (last.op = "redo" /\ last.log # <<>>)
          => /\ last.log[1] = Newest(Pre.history.redo)
             /\ (Len(last.log) = 1 /\ SetxOfNumber(last.log[1]))
                   => x = last.log[1].args[1].n

\* register(setx, 0) and register(setx, [0, 1]) were replayed by undo(2)
ArgumentNormalizationWitness ==
    /\ last.op = "undo"
    /\ last.log = << [command |-> "setx", args |-> <<Num(0), Num(1)>>],
                     [command |-> "setx", args |-> <<Num(0)>>] >>
    /\ Pre.x # 0
    /\ x = 0

\* redo(n) has just replayed commands that each register once
AfterRedoOfInverses ==
    /\ last.op = "redo"
    /\ last.log # <<>>
    /\ AllInverses(last.log)

(* C13: the entries registered by the commands redo(n) replays, each       *)
(* registering once, are appended to the undo stack in replay order, none  *)
(* goes to the redo stack, and the redo stack loses the replayed entries.  *)
NestedRegistrationOnUndo ==
    AfterRedoOfInverses
        => /\ history.undo
                 = Pre.history.undo
                      \o [i \in 1..Len(last.log) |-> InverseEntry(last.log[i])]
           /\ history.redo
                 = SubSeq(Pre.history.redo, 1,
                          Len(Pre.history.redo) - Len(last.log))
           /\ \A i \in 1..Len(last.regs) : last.regs[i].type = "undo"

\* redo(n) replayed two such commands from a state whose flag was at redo
NestedRegistrationOnUndoWitness ==
    /\ AfterRedoOfInverses
    /\ Len(last.log) = 2
    /\ Pre.next = "redo"

\* the i-th register() of the call is the first one its command made
FirstOfItsCommand(i) ==
    i = 1 \/ last.regs[i - 1].call # last.regs[i].call

(* C14: of the register() calls a command replayed by undo makes, the      *)
(* first pushes to the redo stack and every later one to the undo stack;   *)
(* a replayed addTwo leaves one new entry on each.                         *)
FirstRegistrationCaptured ==
    last.op = "undo"
        => /\ \A i \in 1..Len(last.regs) :
                 last.regs[i].type
                    = IF FirstOfItsCommand(i) THEN "redo" ELSE "undo"
           /\ (Len(last.log) = 1 /\ last.log[1].command = "addTwo")
                 => /\ Len(last.regs) = 2
                    /\ history.redo
                          = Append(Pre.history.redo, last.regs[1].entry)
                    /\ history.undo
                          = Append(SubSeq(Pre.history.undo, 1,
                                          Len(Pre.history.undo) - 1),
                                   last.regs[2].entry)

FirstRegistrationCapturedWitness ==
    /\ last.op = "undo"
    /\ Len(last.log) = 1
    /\ last.log[1].command = "addTwo"
    /\ Pre.history.redo # <<>>
    /\ Len(Pre.history.undo) = 2

\* the entries the k-th replayed command pushed to the stack `type`
PushedBy(type, k) ==
    PushedTo(type, SelectSeq(last.regs, LAMBDA r : r.call = k))

\* follows the log from the k-th replayed command on, starting with `stack`:
\* each command invoked must be the entry then newest on the stack, which
\* leaves the stack, and only register() pushes to it
RECURSIVE Lifo(_, _, _)
Lifo(type, stack, k) ==
    IF k > Len(last.log) THEN [ok |-> TRUE, stack |-> stack]
    ELSE IF stack = <<>> \/ Newest(stack) # last.log[k]
         THEN [ok |-> FALSE, stack |-> stack]
         ELSE Lifo(type,
                   SubSeq(stack, 1, Len(stack) - 1) \o PushedBy(type, k),
                   k + 1)

ExactLevelCount ==
    (last.op = "undo" /\ Len(Pre.history.undo) < size /\ last.thrown = "")
        => /\ (last.arg.t = "number" /\ last.arg.n <= Len(Pre.history.undo))
                 => Len(last.log) = last.arg.n
           /\ (last.arg = Undefined /\ Pre.history.undo # <<>>)
                 => Len(last.log) = 1

(* C17: after construction and after every call that returns normally the  *)
(* flag is at undo, so every register() by the caller or by an operation   *)
(* the caller invokes pushes to the undo stack.                            *)
QuiescentFlag ==
    /\ last.thrown = "" => next = "undo"
    /\ last.op \in {"register", "call"} => last.regs[1].type = "undo"

\* the number of iterations fixed before the loop
Iterations(arg, stack) ==
    LET n == IF arg = Undefined \/ arg.n = 0 THEN 1 ELSE arg.n
    IN  IF n > Len(stack) THEN Len(stack) ELSE n

(* C18: no undo(n) or redo(n) pops an empty stack, whatever the replayed   *)
(* commands register; the number of commands invoked is the one fixed      *)
(* before the loop, min(n, length), also when the commands push to the     *)
(* stack being replayed (fewer only when a command throws).                *)
NoPopFromEmpty ==
    /\ last.thrown # "TypeError"
    /\ (last.op = "undo" /\ Len(Pre.history.undo) < size)
          => /\ Len(last.log) <= Iterations(last.arg, Pre.history.undo)
             /\ last.thrown = ""
                   => Len(last.log) = Iterations(last.arg, Pre.history.undo)
    /\ (last.op = "redo" /\ Len(Pre.history.redo) < size)
          => /\ Len(last.log) <= Iterations(last.arg, Pre.history.redo)
             /\ last.thrown = ""
                   => Len(last.log) = Iterations(last.arg, Pre.history.redo)

\* undo(3) of a single addTwo, which pushes to the undo stack while it runs
NoPopFromEmptyWitness ==
    /\ last.op = "undo"
    /\ last.arg = Num(3)
    /\ Len(Pre.history.undo) = 1
    /\ Len(last.log) = 1
    /\ last.log[1].command = "addTwo"
    /\ history.undo # <<>>

(* C19: an undo(n) or redo(n) whose replayed commands each register once   *)
(* leaves the number of entries on the two stacks together unchanged.      *)
EntryConservation ==
    (last.op \in {"undo", "redo"} /\ AllInverses(last.log))
        => Entries = Len(Pre.history.undo) + Len(Pre.history.redo)

EntryConservationWitness ==
    /\ last.op = "redo"
    /\ Len(last.log) = 2
    /\ AllInverses(last.log)
    /\ Len(history.redo) = 1

=============================================================================
